---- MODULE Spec2Model ----
(***************************************************************************)
(* A model of labctrl's DataSaver (src/labctrl/datahandler.py): the        *)
(* context manager that writes one experimental run to one .h5 file.       *)
(* The h5py file is the external store; the model keeps of it what the     *)
(* DataSaver reads back or decides on: which objects the file holds, each  *)
(* dataset's current shape, and the store calls each handler issues.       *)
(***************************************************************************)
EXTENDS Integers, Sequences, FiniteSets, TLC

\* ------------------------------------------------------------------ bounds
\* Declared length of the first axis of every dataset of the schema.
MaxLen == 2
\* How many times __enter__ may succeed in one behaviour.
MaxSessions == 2

\* ------------------------------------------------------------------ schema
\* The dataspec handed to DataSaver(path, **dataspec): keyword order is the
\* dict's iteration order.  "x" is a coordinate of "z" (dims ("n", "x")).
Order == <<"x", "z">>
Names == {Order[i] : i \in DOMAIN Order}

\* _dataspec[name]["shape"]
shape(name) == IF name = "x" THEN <<MaxLen>> ELSE <<MaxLen, 2>>

\* Names save_data may be called with: the schema's, and one that is not a
\* schema key (it names a metadata group once save_metadata("m") has run).
GroupName == "m"
CallNames == Names \cup {GroupName}

\* ------------------------------------------------------------------ inputs
\* One entry of an index tuple.  The DataSaver reads of a slice only .stop
\* (None: open), and of any other entry its value.
IntVals == -1 .. MaxLen
StopVals == -1 .. (MaxLen + 1)
Open == [k |-> "slice", open |-> TRUE, v |-> 0]
Entries ==
    [k : {"int"}, open : {FALSE}, v : IntVals]
        \cup [k : {"slice"}, open : {FALSE}, v : StopVals]
        \cup {Open}

\* index = ... (Ellipsis), a non-tuple (a bare int, a list), or a tuple.
Ellipsis == [k |-> "ellipsis", items |-> <<>>]
NonTuple == [k |-> "nontuple", items |-> <<>>]
Tuple(t) == [k |-> "tuple", items |-> t]

\* The entries tried on the second axis of "z", whose declared length is 2:
\* the whole axis, a position, a range inside and a range past the end.
At(v) == [k |-> "int", open |-> FALSE, v |-> v]
UpTo(stop) == [k |-> "slice", open |-> FALSE, v |-> stop]
SecondEntries == {Open, At(1), UpTo(1), UpTo(3)}

\* The entries tried on the first axis of "z": the whole axis, the first and
\* the last position, and ranges that end inside and past the axis.
FirstEntries == {Open, At(0), At(MaxLen - 1), UpTo(1), UpTo(MaxLen + 1)}

\* An entry that is neither an integer nor a slice: the list [0], which
\* h5py takes as a selection of position 0.
Listed == [k |-> "list", open |-> FALSE, v |-> 0]

\* Tuples of the dataset's rank that hold such an entry.
OddTuples(name) ==
    IF name = "x" THEN {Tuple(<<Listed>>)}
    ELSE {Tuple(<<Listed, Open>>), Tuple(<<At(0), Listed>>)}

\* The tuples with one entry per axis of the named dataset.
RankTuples(name) ==
    IF name = "x" THEN {Tuple(<<e>>) : e \in Entries}
    ELSE {Tuple(<<e, f>>) : e \in FirstEntries, f \in SecondEntries}

\* The indices every name is tried with, whatever its rank.
CommonIndices == {Ellipsis, NonTuple, Tuple(<<Open>>), Tuple(<<Open, Open>>)}

\* The data argument: an ndarray the selection accepts, an ndarray whose
\* shape the selection rejects, or a bare Python number (h5py broadcasts it;
\* it has neither .shape nor len()).  The last two are tried with index = ...
Datas == {"ndarray", "misfit", "scalar"}

\* ------------------------------------------------------------------- state
VARIABLES
    _lock,      \* self._lock
    _file,      \* self._file: "None" or "open"
    size,       \* _dataspec[name]["size"]; <<>> while the key is not set
    inFile,     \* names of the objects (datasets, groups) in the file's root
    groups,     \* paths of the groups save_metadata created
    attrs,      \* attributes set on groups: <<path, key, value>>
    dshape,     \* current shape in the store of each dataset of the schema
    hist,       \* per dataset, what the save_data calls that returned did
    maxStop,    \* per dataset and axis, largest upper bound of those calls
    depth,      \* with-blocks of this manager entered and not yet left
    sessions,   \* successful __enter__ calls so far
    op,         \* the last call: [kind, exc]
    ret,        \* how it ended: "ok" or the exception's name
    calls,      \* store calls the last call issued, in order
    _dataspec,  \* self._dataspec as __init__ left it: its values are the
                \* mappings the caller passed, not copies of them
    disk,       \* the file at self._path as the constructors left it
    message,    \* the key the last save_metadata's error message names
    covered     \* per dataset and axis, the end of what the save_data
                \* calls that returned have written in the store (kept
                \* in the specification of one session's writes)

vars == <<_lock, _file, size, inFile, groups, attrs, dshape, hist, maxStop,
          depth, sessions, op, ret, calls, _dataspec, disk, message,
          covered>>

rank(name) == Len(shape(name))
Zeros(name) == [i \in 1 .. rank(name) |-> 0]

Max(a, b) == IF a >= b THEN a ELSE b
Range(seq) == {seq[i] : i \in DOMAIN seq}

\* ------------------------------------------------------------- construction
\* One value of **dataspec: a mapping and the keys it holds ("chunks" is
\* True by default, False, or a tuple; extra: a key _create_dataset has no
\* parameter for), or something that is not a mapping.
DSpec(shp) ==
    [mapping |-> TRUE, hasShape |-> TRUE, shape |-> shp, chunks |-> "True",
     hasDims |-> FALSE, dims |-> <<>>, extra |-> FALSE]
WithDims(spec, dims) == [spec EXCEPT !.hasDims = TRUE, !.dims = dims]
NotAMapping == [DSpec(<<>>) EXCEPT !.mapping = FALSE]

\* dataspec is the keyword arguments in the order given: <<name, value>>.
Keys(dataspec) == {dataspec[i][1] : i \in DOMAIN dataspec}
SpecOf(dataspec, name) ==
    dataspec[CHOOSE i \in DOMAIN dataspec : dataspec[i][1] = name][2]

\* self._dataspec[name].pop("dims", None)
PopDims(dataspec, name) ==
    [i \in DOMAIN dataspec |->
        IF dataspec[i][1] = name
        THEN <<name, [dataspec[i][2] EXCEPT !.hasDims = FALSE, !.dims = <<>>]>>
        ELSE dataspec[i]]

\* _find_coordinates: spec.get on a value that is no mapping raises.
FindRaises(dataspec) == \E i \in DOMAIN dataspec : ~dataspec[i][2].mapping

\* _find_coordinates keeping the dims of the first value only (all_dims
\* assigned once instead of extended).
FindCoordinatesFirstOnly(dataspec) ==
    Keys(dataspec) \cap Range(dataspec[1][2].dims)

_find_coordinates(dataspec) ==
    Keys(dataspec) \cap
        UNION {Range(dataspec[i][2].dims) : i \in DOMAIN dataspec}

\* The file at a path: whether it exists and the datasets in it, in the
\* order they were created.
NoFile == [exists |-> FALSE, sets |-> <<>>]

\* _create_dataset(file, name, **spec): the call itself is a TypeError when
\* shape is missing or a keyword is unknown; create_dataset is handed
\* maxshape=shape whatever chunks is, and h5py refuses chunks=False then.
CreateOutcome(spec) ==
    IF ~spec.hasShape \/ spec.extra THEN "TypeError"
    ELSE IF spec.chunks = "False" THEN "ValueError"
    ELSE "ok"

\* maxshape=shape (line 135)
MaxShapeGiven(spec) == spec.shape

Created(name, spec) ==
    [name |-> name, shape |-> spec.shape, maxshape |-> MaxShapeGiven(spec),
     chunks |-> spec.chunks,
     labels |-> [i \in DOMAIN spec.shape |-> ""],
     scales |-> [i \in DOMAIN spec.shape |-> ""]]

PlaceOf(sets, name) == CHOOSE i \in DOMAIN sets : sets[i].name = name

\* A scale attached for every label, coordinate or not.
ScaleAlways(label, coordinates, old) == label

\* if label in coordinates: the coordinate is attached as the axis's scale.
ScaleOf(label, coordinates, old) ==
    IF label \in coordinates THEN label ELSE old

\* _dimensionalize_dataset from the idx-th label on: dataset.dims[idx] past
\* the rank is h5py's IndexError; a label that is a coordinate is attached
\* as the axis's scale.
RECURSIVE Dimensionalize(_, _, _, _, _)
Dimensionalize(st, name, coordinates, dims, idx) ==
    IF idx > Len(dims) THEN st
    ELSE LET at == PlaceOf(st.sets, name) IN
         IF idx > Len(st.sets[at].shape)
         THEN [st EXCEPT !.err = "IndexError"]
         ELSE Dimensionalize(
                  [st EXCEPT
                      !.sets[at].labels[idx] = dims[idx],
                      !.sets[at].scales[idx] = ScaleOf(dims[idx], coordinates, @),
                      !.calls = IF dims[idx] \in coordinates
                                THEN Append(@, <<"attach_scale", name>>)
                                ELSE @],
                  name, coordinates, dims, idx + 1)

\* The two for loops of _initialize_datasets over work[i..]: the
\* coordinates, then the other datasets.  "dims" is popped before the
\* dataset is created; only a dataset that is no coordinate is given its
\* labels.  The first error ends the loops.
RECURSIVE CreateFrom(_, _, _, _)
CreateFrom(work, i, st, coordinates) ==
    IF i > Len(work) \/ st.err # "ok" THEN st
    ELSE LET name == work[i]
             given == SpecOf(st.spec, name)
             popped == [st EXCEPT !.spec = PopDims(@, name)]
             spec == SpecOf(popped.spec, name)
             outcome == CreateOutcome(spec)
         IN  IF outcome = "TypeError" THEN [popped EXCEPT !.err = outcome]
             ELSE IF outcome # "ok"
             THEN [popped EXCEPT !.err = outcome,
                                 !.calls = Append(@, <<"create_dataset", name>>)]
             ELSE LET made == [popped EXCEPT
                                  !.sets = Append(@, Created(name, spec)),
                                  !.calls = Append(@, <<"create_dataset", name>>)]
                  IN  CreateFrom(work, i + 1,
                          IF name \notin coordinates /\ given.hasDims
                          THEN Dimensionalize(made, name, coordinates,
                                              given.dims, 1)
                          ELSE made,
                          coordinates)

\* h5py.File(path, mode="w"): an existing file is truncated, never refused.
CreateNeverRefused(d) == FALSE

\* h5py.File(path, mode="x"): create the file, fail if it exists.
CreateRefused(d) == d.exists

\* _initialize_datasets on the file d.  order is the order in which the
\* sets `coordinates` and `keys - coordinates` happen to be iterated.  The
\* with statement closes the file on any exit; what was created stays.
_initialize_datasets(d, dataspec, order) ==
    LET opened == << <<"create_file", "">> >> IN
    IF CreateRefused(d)
    THEN [disk |-> d, spec |-> dataspec, err |-> "FileExistsError",
          calls |-> opened]
    ELSE IF FindRaises(dataspec)
    THEN [disk |-> [exists |-> TRUE, sets |-> <<>>], spec |-> dataspec,
          err |-> "AttributeError", calls |-> opened]
    ELSE LET coordinates == _find_coordinates(dataspec)
             IsCoordinate(n) == n \in coordinates
             IsOther(n) == n \notin coordinates
             work == SelectSeq(order, IsCoordinate) \o SelectSeq(order, IsOther)
             st == CreateFrom(work, 1,
                      [sets |-> <<>>, spec |-> dataspec, err |-> "ok",
                       calls |-> opened],
                      coordinates)
         IN  [disk |-> [exists |-> TRUE, sets |-> st.sets], spec |-> st.spec,
              err |-> st.err, calls |-> st.calls]

\* The dataspec of the manager the sessions below belong to.
Schema ==
    << <<"x", DSpec(<<MaxLen>>)>>,
       <<"z", WithDims(DSpec(<<MaxLen, 2>>), <<"n", "x">>)>> >>

Built == _initialize_datasets(NoFile, Schema, Order)

\* DataSaver.__init__: the file exists with every dataset of the schema at
\* its declared shape; no handle is held; the manager is not locked.
Init ==
    /\ _lock = FALSE
    /\ _file = "None"
    /\ size = [n \in Names |-> <<>>]
    /\ inFile = Names
    /\ groups = {}
    /\ attrs = {}
    /\ dshape = [n \in Names |-> shape(n)]
    /\ hist = [n \in Names |-> "none"]
    /\ maxStop = [n \in Names |-> Zeros(n)]
    /\ depth = 0
    /\ sessions = 0
    /\ op = [kind |-> "__init__", exc |-> FALSE]
    /\ ret = "ok"
    /\ calls = <<>>
    /\ _dataspec = Built.spec
    /\ disk = Built.disk
    /\ message = ""
    /\ covered = [n \in Names |-> Zeros(n)]

Call(kind) == [kind |-> kind, exc |-> FALSE]

\* A call that raises before it touches the manager or the store.
Raises(o, e) ==
    /\ op' = o
    /\ ret' = e
    /\ calls' = <<>>
    /\ UNCHANGED <<_lock, _file, size, inFile, groups, attrs, dshape, hist, maxStop,
                   depth, sessions>>

\* ----------------------------------------------------------------- __init__
\* The exceptions __init__ turns into a DataSavingError (lines 59 and 65);
\* any other leaves it as it is.
Caught == {"AttributeError", "TypeError", "FileExistsError"}

\* __init__ without its check for an empty dataspec.
DataspecNeverChecked(dataspec) == FALSE

\* if not dataspec: raise DataSavingError, the first statement of __init__.
NoDataspec(dataspec) == dataspec = <<>>

\* _validate_path: the suffix is looked at, then the parent folder is
\* made; a path that is no Path or has another suffix is refused before.
_validate_path(pathOk) ==
    IF pathOk
    THEN [err |-> "ok",
          calls |-> << <<"validate_path", "">>, <<"mkdir", "">> >>]
    ELSE [err |-> "DataSavingError", calls |-> << <<"validate_path", "">> >>]

\* DataSaver(path, **dataspec) on the path whose file is `disk`.  pathOk: the
\* path is a Path with one of the suffixes _validate_path takes.
__init__(pathOk, dataspec, order) ==
    /\ op' = Call("__init__")
    /\ IF NoDataspec(dataspec)
       THEN /\ ret' = "DataSavingError"
            /\ calls' = <<>>
            /\ UNCHANGED <<_dataspec, disk, inFile>>
       ELSE IF _validate_path(pathOk).err # "ok"
       THEN /\ ret' = _validate_path(pathOk).err
            /\ calls' = _validate_path(pathOk).calls
            /\ UNCHANGED <<_dataspec, disk, inFile>>
       ELSE LET r == _initialize_datasets(disk, dataspec, order) IN
            /\ ret' = IF r.err \in Caught THEN "DataSavingError" ELSE r.err
            /\ calls' = _validate_path(pathOk).calls \o r.calls
            /\ _dataspec' = r.spec
            /\ disk' = r.disk
            /\ inFile' = {r.disk.sets[i].name : i \in DOMAIN r.disk.sets}
    /\ UNCHANGED <<_lock, _file, size, groups, attrs, dshape, hist, maxStop,
                   depth, sessions>>

\* ---------------------------------------------------------------- __enter__
\* __enter__ without its check of the lock.
EnterNeverRefused == FALSE

\* __enter__ refusing while the file is open instead of once locked.
EnterRefusedWhileOpen == _file # "None"

\* if self._lock: raise DataSavingError
EnterRefused == _lock

__enter__ ==
    /\ EnterRefused \/ sessions < MaxSessions
    /\ IF EnterRefused
       THEN Raises(Call("__enter__"), "DataSavingError")
       ELSE /\ _file' = "open"
            /\ size' = [n \in Names |-> Zeros(n)]
            /\ hist' = [n \in Names |-> "none"]
            /\ maxStop' = [n \in Names |-> Zeros(n)]
            /\ depth' = depth + 1
            /\ sessions' = sessions + 1
            /\ op' = Call("__enter__")
            /\ ret' = "ok"
            /\ calls' = << <<"open", "">> >>
            /\ UNCHANGED <<_lock, inFile, groups, attrs, dshape>>

\* ----------------------------------------------------------------- __exit__
\* __exit__ without the branch that deletes an unwritten dataset.
TrimOpNoDelete(fin_shape, init_shape) ==
    IF fin_shape # init_shape THEN "resize" ELSE "none"

\* __exit__ resizing whatever it does not delete.
TrimOpAlwaysResize(fin_shape, init_shape) ==
    IF \A i \in DOMAIN fin_shape : fin_shape[i] = 0 THEN "delete" ELSE "resize"

\* __exit__ taking a dataset for unwritten by its first axis alone.
TrimOpByFirstAxis(fin_shape, init_shape) ==
    IF fin_shape[1] = 0 THEN "delete"
    ELSE IF fin_shape # init_shape THEN "resize"
    ELSE "none"

\* The branch __exit__ takes for one dataset, from its final size.
TrimOp(fin_shape, init_shape) ==
    IF \A i \in DOMAIN fin_shape : fin_shape[i] = 0 THEN "delete"
    ELSE IF fin_shape # init_shape THEN "resize"
    ELSE "none"

\* The store's answer to del file[name] and file[name].resize(fin_shape):
\* the object must be there, and no axis may exceed the maxshape it was
\* created with, which is the declared shape.
StoreAccepts(todo, name, fin_shape, objs) ==
    /\ name \in objs
    /\ todo = "resize" =>
          \A i \in DOMAIN fin_shape : fin_shape[i] <= shape(name)[i]

\* The for loop of __exit__ from the i-th dataset on.  st is the store so
\* far and the calls issued; ioFail is the position at which the store
\* fails for a reason of its own (0: nowhere).  The loop stops at the first
\* call that raises.
RECURSIVE TrimFrom(_, _, _, _)
TrimFrom(i, st, sz, ioFail) ==
    IF i > Len(Order) THEN st
    ELSE LET name == Order[i]
             todo == TrimOp(sz[name], shape(name))
         IN  IF todo = "none" THEN TrimFrom(i + 1, st, sz, ioFail)
             ELSE IF st.handle = "None"
             THEN [st EXCEPT !.err = "TypeError"]
             ELSE IF ~StoreAccepts(todo, name, sz[name], st.objs) \/ ioFail = i
             THEN [st EXCEPT !.err = "StoreError",
                             !.calls = Append(@, <<todo, name>>)]
             ELSE TrimFrom(i + 1,
                      [st EXCEPT
                          !.objs = IF todo = "delete" THEN @ \ {name} ELSE @,
                          !.shapes = IF todo = "resize"
                                     THEN [@ EXCEPT ![name] = sz[name]] ELSE @,
                          !.calls = Append(@, <<todo, name>>)],
                      sz, ioFail)

Trim(ioFail) ==
    TrimFrom(1, [objs |-> inFile, shapes |-> dshape, calls |-> <<>>,
                 err |-> "ok", handle |-> _file], size, ioFail)

\* exc: the with-block is left by an exception of the caller's; __exit__
\* does not read its arguments and returns None.
__exit__(exc, ioFail) ==
    /\ depth > 0
    /\ LET t == Trim(ioFail) IN
       /\ op' = [kind |-> "__exit__", exc |-> exc]
       /\ depth' = depth - 1
       /\ inFile' = t.objs
       /\ dshape' = t.shapes
       /\ IF t.err # "ok"
          THEN /\ ret' = t.err
               /\ calls' = t.calls
               /\ UNCHANGED <<_lock, _file>>
          ELSE IF _file = "None"
          THEN /\ ret' = "AttributeError"   \* None.close()
               /\ calls' = t.calls
               /\ UNCHANGED <<_lock, _file>>
          ELSE /\ ret' = "ok"
               /\ calls' = Append(t.calls, <<"close", "">>)
               /\ _file' = "None"
               /\ _lock' = TRUE
    /\ UNCHANGED <<size, groups, attrs, hist, maxStop, sessions>>

\* ---------------------------------------------------------------- save_data
\* The check of a manager whose __exit__ leaves self._file set: it passes
\* once the file has been opened, also after the session.
SessionEverOpened == sessions > 0

\* _validate_session: raises unless self._file is set.
_validate_session == _file # "None"

\* _get_dataset: self._file[name]; KeyError becomes DataSavingError.  The
\* lookup is in the file, so it finds groups as well as datasets.
_get_dataset(name) == name \in inFile

IsDataset(name) == name \in Names

\* _validate_index comparing the two lengths with >= instead of ==.
ValidateIndexAtMostRank(name, index) ==
    \/ index.k = "ellipsis"
    \/ index.k = "tuple" /\ Len(index.items) <= rank(name)

\* _validate_index: Ellipsis passes; anything but a tuple is refused; a
\* tuple must have dataset.ndim entries.
_validate_index(name, index) ==
    \/ index.k = "ellipsis"
    \/ index.k = "tuple" /\ Len(index.items) = rank(name)

\* dataset[index] = data in the store.  h5py takes an integer position only
\* inside the current shape (negative: from the end), clips a slice to the
\* current shape, and refuses data it cannot broadcast to the selection.
IntInRange(v, len) == -len <= v /\ v < len

StoreWrites(name, data, index) ==
    /\ data # "misfit"
    /\ index.k = "tuple" =>
          \A i \in DOMAIN index.items :
              index.items[i].k = "int" =>
                  IntInRange(index.items[i].v, dshape[name][i])

\* The debug line after the flush formats data.shape and, failing that,
\* len(data): a bare number has neither, and the TypeError leaves save_data.
LogRaises(data) == data = "scalar"

\* max(size[i], item) in _track_size compares the entry with an integer: a
\* TypeError for an entry that is no number.
TrackRaises(index) ==
    /\ index.k = "tuple"
    /\ \E i \in DOMAIN index.items : index.items[i].k \notin {"int", "slice"}

\* _track_size taking the entry's value without comparing it with the size.
TrackAxisLast(old, item, full) ==
    IF item.k = "slice"
    THEN IF item.open THEN full ELSE item.v
    ELSE item.v

\* _track_size: the new value of _dataspec[name]["size"].
TrackAxis(old, item, full) ==
    IF item.k = "slice"
    THEN IF item.open THEN full ELSE Max(old, item.v)
    ELSE Max(old, item.v)

\* _track_size without the early return for index = ...
TrackSizeNoEllipsis(name, index) ==
    IF index.k = "ellipsis" THEN size[name]
    ELSE [i \in DOMAIN size[name] |->
             IF i <= Len(index.items)
             THEN TrackAxis(size[name][i], index.items[i], shape(name)[i])
             ELSE size[name][i]]

_track_size(name, index) ==
    IF index.k = "ellipsis" THEN shape(name)
    ELSE [i \in DOMAIN size[name] |->
             IF i <= Len(index.items)
             THEN TrackAxis(size[name][i], index.items[i], shape(name)[i])
             ELSE size[name][i]]

\* What the calls that returned have been, for the claims about sequences
\* of writes: "full" is one call with index = ..., "ranges" is calls whose
\* entries are all slices with upper bounds that do not go down from call
\* to call.  The upper bound of a slice is the end of the range the store
\* wrote: h5py clips the stop to the axis and counts a negative one from
\* its end; an open slice ends at the end of the axis.
Clip(stop, len) ==
    IF stop < 0 THEN Max(len + stop, 0) ELSE IF stop > len THEN len ELSE stop

UpperBound(item, len) == IF item.open THEN len ELSE Clip(item.v, len)

AllSlices(index) ==
    /\ index.k = "tuple"
    /\ \A i \in DOMAIN index.items : index.items[i].k = "slice"

Bounds(name, index) ==
    [i \in 1 .. Len(index.items) |->
        UpperBound(index.items[i], dshape[name][i])]

NextHist(name, index) ==
    IF hist[name] = "none" /\ index.k = "ellipsis" THEN "full"
    ELSE IF /\ hist[name] \in {"none", "ranges"}
            /\ AllSlices(index)
            /\ \A i \in DOMAIN index.items :
                   Bounds(name, index)[i] >= maxStop[name][i]
    THEN "ranges"
    ELSE "mixed"

\* save_data without the flush after the write.
WriteNoFlush(name) == << <<"write", name>> >>

\* dataset[index] = data (line 225), then self._file.flush() (line 226).
WriteThenFlush(name) == << <<"write", name>>, <<"flush", "">> >>

\* save_data tracking the size before the store has taken the write.
SizeTrackedBeforeWrite(name, index) ==
    [size EXCEPT ![name] = _track_size(name, index)]

\* dataset[index] = data (line 225) comes before _track_size (line 233): a
\* write that raises leaves save_data with the sizes as they were.
SizeAfterFailedWrite(name, index) == size

\* The end, on each axis, of the positions the store holds written data at
\* once dataset[index] = data is done: an integer position v selects v
\* alone (a negative one counts from the end), a slice the positions below
\* its clipped stop, index = ... all of them; a selection that is empty on
\* one axis selects nothing.
EndOf(item, len) ==
    IF item.k \in {"int", "list"}
    THEN (IF item.v < 0 THEN len + item.v ELSE item.v) + 1
    ELSE UpperBound(item, len)

Covers(name, index) ==
    IF index.k = "ellipsis"
    THEN [i \in DOMAIN dshape[name] |-> Max(covered[name][i], dshape[name][i])]
    ELSE IF \E i \in DOMAIN index.items :
                EndOf(index.items[i], dshape[name][i]) = 0
    THEN covered[name]
    ELSE [i \in DOMAIN dshape[name] |->
             Max(covered[name][i], EndOf(index.items[i], dshape[name][i]))]

save_data(name, data, index) ==
    LET o == Call("save_data") IN
    IF ~_validate_session THEN Raises(o, "DataSavingError")
    ELSE IF ~_get_dataset(name) THEN Raises(o, "DataSavingError")
    ELSE IF index.k = "nontuple" THEN Raises(o, "DataSavingError")
    ELSE IF ~IsDataset(name)
    THEN \* a group: no .ndim to compare a tuple with, no item to assign
         IF index.k = "tuple" THEN Raises(o, "AttributeError")
         ELSE /\ op' = o
              /\ ret' = "StoreError"
              /\ calls' = << <<"write", name>> >>
              /\ UNCHANGED <<_lock, _file, size, inFile, groups, attrs, dshape, hist,
                             maxStop, depth, sessions>>
    ELSE IF ~_validate_index(name, index) THEN Raises(o, "DataSavingError")
    ELSE IF ~StoreWrites(name, data, index)
    THEN /\ op' = o
         /\ ret' = "StoreError"
         /\ calls' = << <<"write", name>> >>
         /\ size' = SizeAfterFailedWrite(name, index)
         /\ UNCHANGED <<_lock, _file, inFile, groups, attrs, dshape, hist,
                        maxStop, depth, sessions>>
    ELSE /\ op' = o
         /\ calls' = WriteThenFlush(name)
         /\ IF LogRaises(data) \/ TrackRaises(index)
            THEN /\ ret' = "TypeError"
                 /\ UNCHANGED <<size, hist, maxStop>>
            ELSE /\ ret' = "ok"
                 /\ size' = [size EXCEPT ![name] = _track_size(name, index)]
                 /\ hist' = [hist EXCEPT ![name] = NextHist(name, index)]
                 /\ maxStop' = [maxStop EXCEPT ![name] =
                        IF NextHist(name, index) = "ranges"
                        THEN Bounds(name, index) ELSE Zeros(name)]
         /\ UNCHANGED <<_lock, _file, inFile, groups, attrs, dshape, depth,
                        sessions>>

\* save_data together with the record of what it wrote.
Write(name, data, index) ==
    /\ save_data(name, data, index)
    /\ covered' = IF ret' = "ok"
                  THEN [covered EXCEPT ![name] = Covers(name, index)]
                  ELSE covered

\* ------------------------------------------------------------ save_metadata
\* A metadata value: a number, text, a boolean, an ndarray ("arr"; "big" is
\* one over the store's 64k attribute limit), None, a list/tuple/set, a
\* dict (pairs: its <<key, value>> items in insertion order), or any other
\* object ("obj").
Num(v) == [t |-> "num", v |-> ToString(v), items |-> <<>>, pairs |-> <<>>]
Str(v) == [t |-> "str", v |-> v, items |-> <<>>, pairs |-> <<>>]
\* numpy.str_, a subclass of str
NpStr(v) == [t |-> "npstr", v |-> v, items |-> <<>>, pairs |-> <<>>]
Bool(v) == [t |-> "bool", v |-> ToString(v), items |-> <<>>, pairs |-> <<>>]
NoneValue == [t |-> "none", v |-> "", items |-> <<>>, pairs |-> <<>>]
\* a numpy array within the attribute size limit
Array == [t |-> "arr", v |-> "", items |-> <<>>, pairs |-> <<>>]
BigArray == [t |-> "big", v |-> "", items |-> <<>>, pairs |-> <<>>]
List(items) == [t |-> "list", v |-> "", items |-> items, pairs |-> <<>>]
Dict(pairs) == [t |-> "dict", v |-> "", items |-> <<>>, pairs |-> pairs]
\* h5py.Empty("S10")
Empty == [t |-> "empty", v |-> "", items |-> <<>>, pairs |-> <<>>]

Plain == {"num", "str", "npstr", "bool", "arr", "big", "dict"}

\* isinstance(item, Number): bool is a Number too.
IsNumber(value) == value.t \in {"num", "bool"}

\* isinstance(item, type(first)): the same class or a subclass of it (bool
\* where int is asked, numpy.str_ where str is).
IsInstanceOfTypeOf(item, first) ==
    \/ item.t = first.t
    \/ first.t = "num" /\ item.t = "bool"
    \/ first.t = "str" /\ item.t = "npstr"

\* _parse_attribute without the branch for a sequence of one element.
ParseKeepsSingle(value) ==
    IF value.t \in Plain THEN value
    ELSE IF value.t = "list"
    THEN IF Len(value.items) = 0 THEN value
         ELSE IF \/ \A i \in DOMAIN value.items : IsNumber(value.items[i])
                 \/ \A i \in 2 .. Len(value.items) :
                        IsInstanceOfTypeOf(value.items[i], value.items[1])
         THEN value
         ELSE Dict([i \in DOMAIN value.items |->
                       <<ToString(i - 1), value.items[i]>>])
    ELSE IF value.t = "none" THEN Empty
    ELSE value

\* _parse_attribute without the branch for None.
ParseNoneAsIs(value) ==
    IF value.t \in Plain THEN value
    ELSE IF value.t = "list"
    THEN IF Len(value.items) = 0 THEN value
         ELSE IF Len(value.items) = 1 THEN value.items[1]
         ELSE IF \/ \A i \in DOMAIN value.items : IsNumber(value.items[i])
                 \/ \A i \in 2 .. Len(value.items) :
                        IsInstanceOfTypeOf(value.items[i], value.items[1])
         THEN value
         ELSE Dict([i \in DOMAIN value.items |->
                       <<ToString(i - 1), value.items[i]>>])
    ELSE value

\* _parse_attribute
_parse_attribute(value) ==
    IF value.t \in Plain THEN value
    ELSE IF value.t = "list"
    THEN IF Len(value.items) = 0 THEN value
         ELSE IF Len(value.items) = 1 THEN value.items[1]
         ELSE IF \/ \A i \in DOMAIN value.items : IsNumber(value.items[i])
                 \/ \A i \in 2 .. Len(value.items) :
                        IsInstanceOfTypeOf(value.items[i], value.items[1])
         THEN value
         ELSE Dict([i \in DOMAIN value.items |->
                       <<ToString(i - 1), value.items[i]>>])
    ELSE IF value.t = "none" THEN Empty
    ELSE value

\* group.attrs[key] = value in the store: "ok", or the error h5py raises.
\* A value past the attribute size limit is a ValueError; None, an object
\* and a sequence with no one element type h5py has no type for.
StoreSetsAttr(value) ==
    IF value.t = "big" THEN "ValueError"
    ELSE IF value.t \in {"none", "obj"} THEN "TypeError"
    ELSE IF value.t = "list"
    THEN IF \/ \A i \in DOMAIN value.items : IsNumber(value.items[i])
            \/ \A i \in DOMAIN value.items :
                   value.items[i].t \in {"str", "npstr"}
         THEN "ok" ELSE "TypeError"
    ELSE "ok"

\* attrs[key] = value replaces what the key held.
SetAttr(as, path, key, value) ==
    {a \in as : ~(a[1] = path /\ a[2] = key)} \cup {<<path, key, value>>}

\* The names a group holds: its child groups (and, in the root, datasets).
Taken(st, path) ==
    {g[Len(g)] : g \in {h \in st.groups : Len(h) = Len(path) + 1
                            /\ SubSeq(h, 1, Len(path)) = path}}
        \cup (IF path = <<>> THEN st.objs ELSE {})

\* The for loop of _save_metadata over items[i..], on the group at path.
\* Either except clause turns the store's error into a DataSavingError and
\* ends the loop; create_group on a taken name is a ValueError as well.
\* The loop going on with the next key after an error.
LoopGoesOn(items, i, st) == i > Len(items)

\* The for loop is over at the end of the items, or when an exception
\* leaves it: the DataSavingError of a recursive call is not caught again.
LoopEnds(items, i, st) == i > Len(items) \/ st.err # "ok"

RECURSIVE _save_metadata(_, _, _, _)
_save_metadata(path, items, i, st) ==
    IF LoopEnds(items, i, st) THEN st
    ELSE LET key == items[i][1]
             value == _parse_attribute(items[i][2])
         IN  IF value.t = "dict"
             THEN IF key \in Taken(st, path)
                  THEN [st EXCEPT !.err = "DataSavingError", !.key = key,
                           !.calls = Append(@, <<"create_group", key>>)]
                  ELSE _save_metadata(path, items, i + 1,
                           _save_metadata(Append(path, key), value.pairs, 1,
                               [st EXCEPT
                                   !.groups = @ \cup {Append(path, key)},
                                   !.objs = IF path = <<>>
                                            THEN @ \cup {key} ELSE @,
                                   !.calls = Append(@, <<"create_group", key>>)]))
             ELSE IF StoreSetsAttr(value) # "ok"
             THEN [st EXCEPT !.err = "DataSavingError", !.key = key,
                             !.calls = Append(@, <<"set_attr", key>>)]
             ELSE _save_metadata(path, items, i + 1,
                      [st EXCEPT !.attrs = SetAttr(@, path, key, value),
                                 !.calls = Append(@, <<"set_attr", key>>)])

\* save_metadata starting the size tracking afresh.
MetadataResetsSizes ==
    /\ size' = [n \in Names |-> Zeros(n)]
    /\ UNCHANGED <<_lock, _file, dshape, hist, maxStop, depth, sessions>>

\* save_metadata and _save_metadata assign nothing of the manager and
\* reach no dataset: they call create_group and set attributes only.
MetadataOnly ==
    UNCHANGED <<_lock, _file, size, dshape, hist, maxStop, depth, sessions>>

\* name = "" stands for name=None: the metadata goes to the file's root.
save_metadata(name, metadata) ==
    LET o == Call("save_metadata") IN
    IF ~_validate_session THEN Raises(o, "DataSavingError") /\ message' = ""
    ELSE IF name # "" /\ name \in inFile
    THEN \* file.create_group(name) on a taken name: h5py's ValueError
         /\ op' = o
         /\ ret' = "ValueError"
         /\ message' = ""
         /\ calls' = << <<"create_group", name>> >>
         /\ UNCHANGED <<_lock, _file, size, inFile, groups, attrs, dshape,
                        hist, maxStop, depth, sessions>>
    ELSE LET st0 == [objs |-> IF name = "" THEN inFile ELSE inFile \cup {name},
                     groups |-> IF name = "" THEN groups
                                ELSE groups \cup {<<name>>},
                     attrs |-> attrs,
                     calls |-> IF name = "" THEN <<>>
                               ELSE << <<"create_group", name>> >>,
                     err |-> "ok", key |-> ""]
             st == _save_metadata(IF name = "" THEN <<>> ELSE <<name>>,
                                  metadata.pairs, 1, st0)
         IN  /\ op' = o
             /\ ret' = st.err
             /\ message' = st.key
             /\ calls' = st.calls
             /\ inFile' = st.objs
             /\ groups' = st.groups
             /\ attrs' = st.attrs
             /\ MetadataOnly

\* The metadata trees save_metadata is called with.
Trees == {Dict(<< <<"a", Num(1)>>, <<"b", Dict(<< <<"c", Num(2)>> >>)>> >>)}

Next ==
    \/ __enter__ /\ UNCHANGED <<_dataspec, disk, message, covered>>
    \/ \E exc \in BOOLEAN, ioFail \in 0 .. Len(Order) :
           __exit__(exc, ioFail)
               /\ UNCHANGED <<_dataspec, disk, message, covered>>
    \/ \E name \in Names : \E index \in RankTuples(name) :
           save_data(name, "ndarray", index)
               /\ UNCHANGED <<_dataspec, disk, message, covered>>
    \/ \E name \in CallNames, index \in CommonIndices :
           save_data(name, "ndarray", index)
               /\ UNCHANGED <<_dataspec, disk, message, covered>>
    \/ \E name \in CallNames, data \in Datas :
           save_data(name, data, Ellipsis)
               /\ UNCHANGED <<_dataspec, disk, message, covered>>
    \/ \E metadata \in Trees :
           save_metadata(GroupName, metadata)
               /\ UNCHANGED <<_dataspec, disk, covered>>

Spec == Init /\ [][Next]_vars

\* ------------------------------------------------ construction on one path
\* The dataspecs DataSaver is constructed with: well formed ones (the
\* coordinate declared first or last, a coordinate that names another, two
\* coordinates, a coordinate with dims of its own, chunks given as a tuple
\* or as False) and malformed ones (none at all, a value that is no mapping,
\* no shape, an unknown key, fewer or more dims than axes), and one whose
\* only dims name the dataset itself.
SpecX == DSpec(<<MaxLen>>)
SpecZ == WithDims(DSpec(<<MaxLen, 2>>), <<"n", "x">>)

Dataspecs ==
    { <<>>,
      Schema,
      << <<"z", SpecZ>>, <<"x", SpecX>> >>,
      << <<"x", WithDims(SpecX, <<"y">>)>>, <<"y", SpecX>>, <<"z", SpecZ>> >>,
      << <<"x", SpecX>>, <<"y", SpecX>>,
         <<"z", WithDims(SpecZ, <<"y", "x">>)>> >>,
      << <<"x", WithDims(SpecX, <<"a", "b">>)>>, <<"z", SpecZ>> >>,
      << <<"x", [SpecX EXCEPT !.chunks = "tuple"]>>, <<"z", SpecZ>> >>,
      << <<"x", [SpecX EXCEPT !.chunks = "False"]>>, <<"z", SpecZ>> >>,
      << <<"x", SpecX>>, <<"z", NotAMapping>> >>,
      << <<"x", SpecX>>,
         <<"z", [SpecZ EXCEPT !.hasShape = FALSE, !.shape = <<>>]>> >>,
      << <<"x", SpecX>>, <<"z", [SpecZ EXCEPT !.extra = TRUE]>> >>,
      << <<"x", SpecX>>, <<"z", WithDims(SpecZ, <<"x">>)>> >>,
      << <<"x", SpecX>>, <<"z", WithDims(SpecZ, <<"n", "x", "n">>)>> >>,
      << <<"x", WithDims(SpecX, <<"x">>)>>, <<"z", DSpec(<<MaxLen, 2>>)>> >> }

\* The orders a set of names can be iterated in.
Orders(S) == {p \in [1 .. Cardinality(S) -> S] : Range(p) = S}

\* No DataSaver has been constructed and the path is free.
Unbuilt ==
    /\ _lock = FALSE
    /\ _file = "None"
    /\ size = [n \in Names |-> <<>>]
    /\ inFile = {}
    /\ groups = {}
    /\ attrs = {}
    /\ dshape = [n \in Names |-> shape(n)]
    /\ hist = [n \in Names |-> "none"]
    /\ maxStop = [n \in Names |-> Zeros(n)]
    /\ depth = 0
    /\ sessions = 0
    /\ op = Call("none")
    /\ ret = "ok"
    /\ calls = <<>>
    /\ _dataspec = <<>>
    /\ disk = NoFile
    /\ message = ""
    /\ covered = [n \in Names |-> Zeros(n)]

NextInit ==
    \E pathOk \in BOOLEAN, dataspec \in Dataspecs :
        \E order \in Orders(Keys(dataspec)) :
            __init__(pathOk, dataspec, order) /\ UNCHANGED <<message, covered>>

SpecInit == Unbuilt /\ [][NextInit]_vars

\* ------------------------------------------------- metadata in one session
\* The values save_metadata is handed under one key: scalars, None, and
\* sequences (empty, of one element, of numbers, of one type, of a type and
\* a subclass of it, of several types, nested, of one element that is
\* None or a sequence of several types).
MetaValues ==
    { Num(1), Str("a"), NpStr("b"), Bool(TRUE), Array, NoneValue, BigArray,
      List(<<>>),
      List(<<Num(5)>>),
      List(<<NoneValue>>),
      List(<<List(<<Num(1), Str("a")>>)>>),
      List(<<Num(1), Num(2)>>),
      List(<<Num(1), Bool(TRUE)>>),
      List(<<Str("a"), Str("b")>>),
      List(<<Str("a"), NpStr("b")>>),
      List(<<NpStr("b"), Str("a")>>),
      List(<<Num(1), Str("a")>>),
      List(<<Num(1), List(<<Str("b"), Num(2)>>)>>),
      Dict(<< <<"c", Num(2)>> >>),
      Dict(<< <<"c", NoneValue>>, <<"d", Dict(<<>>)>> >>) }

\* An object h5py has no type for.
Obj == [t |-> "obj", v |-> "", items |-> <<>>, pairs |-> <<>>]

\* Trees in which keys follow the one that cannot be written, at the top
\* and inside a nested mapping.
FailingTrees ==
    { Dict(<< <<"a", Num(1)>>, <<"k", BigArray>>, <<"e", Num(3)>> >>),
      Dict(<< <<"a", Num(1)>>,
              <<"k", Dict(<< <<"c", Num(2)>>, <<"f", Obj>>, <<"d", Num(2)>> >>)>>,
              <<"e", Num(3)>> >>) }

MetaTrees ==
    {Dict(<<>>)}
        \cup {Dict(<< <<"a", Num(1)>>, <<"k", v>> >>) : v \in MetaValues}
        \cup FailingTrees

\* name=None (the file's root) or the name of a group.
MetaNames == {"", GroupName}

\* Inside a with-block of the manager built from Schema, nothing written.
InSession ==
    /\ _lock = FALSE
    /\ _file = "open"
    /\ size = [n \in Names |-> Zeros(n)]
    /\ inFile = Names
    /\ groups = {}
    /\ attrs = {}
    /\ dshape = [n \in Names |-> shape(n)]
    /\ hist = [n \in Names |-> "none"]
    /\ maxStop = [n \in Names |-> Zeros(n)]
    /\ depth = 1
    /\ sessions = 1
    /\ op = Call("__enter__")
    /\ ret = "ok"
    /\ calls = << <<"open", "">> >>
    /\ _dataspec = Built.spec
    /\ disk = Built.disk
    /\ message = ""
    /\ covered = [n \in Names |-> Zeros(n)]

NextMeta ==
    \E name \in MetaNames, metadata \in MetaTrees :
        save_metadata(name, metadata) /\ UNCHANGED <<_dataspec, disk, covered>>

SpecMeta == InSession /\ [][NextMeta]_vars

\* ------------------------------------------------ the writes of one session
\* One session of the manager built from Schema: save_data with every
\* index and data above, then __exit__.  covered records what was written.
NextData ==
    \/ \E name \in Names : \E index \in RankTuples(name) \cup OddTuples(name) :
           Write(name, "ndarray", index)
               /\ UNCHANGED <<_dataspec, disk, message>>
    \/ \E name \in CallNames, index \in CommonIndices :
           Write(name, "ndarray", index)
               /\ UNCHANGED <<_dataspec, disk, message>>
    \/ \E name \in CallNames, data \in Datas :
           Write(name, data, Ellipsis)
               /\ UNCHANGED <<_dataspec, disk, message>>
    \/ \E exc \in BOOLEAN, ioFail \in 0 .. Len(Order) :
           __exit__(exc, ioFail)
               /\ UNCHANGED <<_dataspec, disk, message, covered>>

SpecData == InSession /\ [][NextData]_vars

\* ================================================================== claims
AllZero(v) == \A i \in DOMAIN v : v[i] = 0
IsPrefix(a, b) == Len(a) <= Len(b) /\ SubSeq(b, 1, Len(a)) = a

\* The store as the DataSaver's callers see it.
store == <<inFile, groups, attrs, dshape>>

\* C1: over the lifetime of one DataSaver at most one __enter__ succeeds,
\* whether the second attempt comes after the first session or during it.
C1_AtMostOneEnter == sessions <= 1

C3_ExitAlwaysReleases ==
    op.kind = "__exit__" => (_file = "None" /\ _lock)

C5_RangesExact ==
    \A n \in Names :
        hist[n] = "ranges" =>
            /\ size[n] = maxStop[n]
            /\ (op.kind = "__exit__" /\ ret = "ok") =>
                   IF AllZero(size[n]) THEN n \notin inFile
                   ELSE n \in inFile /\ dshape[n] = size[n]

\* C6: a dataset written once, with index = ..., has a size equal to its
\* declared shape, and __exit__ neither resizes nor deletes it.
C6_FullWriteKept ==
    [][\A n \in Names :
           hist'[n] = "full" =>
               /\ size'[n] = shape(n)
               /\ op'.kind = "__exit__" =>
                      /\ <<"delete", n>> \notin Range(calls')
                      /\ <<"resize", n>> \notin Range(calls')
                      /\ n \in inFile => (n \in inFile' /\ dshape'[n] = dshape[n])]_vars

C6_Witness ==
    /\ op.kind = "__exit__"
    /\ ret = "ok"
    /\ \E n \in Names : hist[n] = "full" /\ n \in inFile /\ dshape[n] = shape(n)

\* C7: the store calls of __exit__ are those the final sizes ask for, one
\* dataset after the other and each at most once: delete when every axis is
\* 0, else resize to the size when it differs from the declared shape, else
\* nothing; no other delete or resize.  An __exit__ that returns has made
\* all of them, then closed the file.
C7_Choice(n) ==
    IF AllZero(size[n]) THEN "delete"
    ELSE IF size[n] # shape(n) THEN "resize"
    ELSE "none"

C7_IsCall(c) == c[1] # "none"

C7_Plan ==
    SelectSeq([i \in DOMAIN Order |-> <<C7_Choice(Order[i]), Order[i]>>],
              C7_IsCall)

C8_NeverDecreases ==
    [][op'.kind = "save_data" =>
          \A n \in Names : \A i \in DOMAIN size[n] :
              size'[n][i] >= size[n][i]]_vars

\* C9: when the store's write raises, the error leaves save_data as it is
\* and no size has changed.
C9_FailedWriteKeepsSizes ==
    [][(op'.kind = "save_data" /\ ret' = "StoreError") =>
          /\ size' = size
          /\ <<"flush", "">> \notin Range(calls')]_vars

C9_Witness ==
    /\ op.kind = "save_data"
    /\ ret = "StoreError"
    /\ \E n \in Names : ~AllZero(size[n])

C11_UnknownNameRefused ==
    [][(\E data \in Datas, index \in CommonIndices :
            save_data(GroupName, data, index)) =>
          /\ ret' = "DataSavingError"
          /\ calls' = <<>>
          /\ size' = size]_vars

\* C12: save_data on a dataset with an index that is neither ... nor a
\* tuple, or with a tuple whose length is not the dataset's rank, raises
\* DataSavingError before the store is asked to write; the store and every
\* size are as before.
C12_BadIndices(n) ==
    {NonTuple} \cup {i \in CommonIndices :
                        i.k = "tuple" /\ Len(i.items) # rank(n)}

C12_BadIndexRefused ==
    [][\A n \in Names :
          (\E index \in C12_BadIndices(n) : save_data(n, "ndarray", index)) =>
              /\ ret' = "DataSavingError"
              /\ calls' = <<>>
              /\ UNCHANGED <<store, size>>]_vars

\* A session in which every name is in the file and something was written:
\* only the index can have been refused.
C12_Witness ==
    /\ _file = "open"
    /\ CallNames \subseteq inFile
    /\ \E n \in Names : ~AllZero(size[n])
    /\ op.kind = "save_data"
    /\ ret = "DataSavingError"
\* C13: when a delete or resize of __exit__ raises for one dataset, the
\* error reaches the caller and every other dataset has still been deleted
\* or resized as its size asks.
C13_TrimGoesOn ==
    [][(op'.kind = "__exit__" /\ ret' = "StoreError") =>
          \A n \in Names :
              TrimOp(size[n], shape(n)) # "none" =>
                  <<TrimOp(size[n], shape(n)), n>> \in Range(calls')]_vars
\* C14: a construction that fails with the DataSavingError of a malformed
\* dataspec leaves no file at a path that was free: none holding part of
\* the dataspec's datasets, none holding none of them.
C14_NoHalfFile ==
    [][(op'.kind = "__init__" /\ ret' = "DataSavingError" /\ ~disk.exists) =>
          ~disk'.exists]_vars
\* C15: constructing a DataSaver on a path where a file exists fails and
\* leaves that file as it is: no dataset is created in it, so the datasets
\* of a path are created at most once and a second manager on the path
\* always fails.
C15_ExistingFileKept ==
    [][(op'.kind = "__init__" /\ disk.exists) =>
          /\ ret' = "DataSavingError"
          /\ disk' = disk
          /\ \A c \in Range(calls') : c[1] # "create_dataset"]_vars

\* A construction refused on a path that holds the datasets of an earlier
\* one.
C15_Witness ==
    /\ op.kind = "__init__"
    /\ ret = "DataSavingError"
    /\ disk.exists
    /\ Len(disk.sets) = 2
    /\ calls = << <<"validate_path", "">>, <<"mkdir", "">>,
                  <<"create_file", "">> >>
\* The datasets of dataspec d, other than n, that name n in their dims.
C16_Users(d, n) ==
    {m \in Keys(d) \ {n} : n \in Range(SpecOf(d, m).dims)}

\* The labels of dataset n in dataspec d that are keys of d.
C16_Keyed(d, n) ==
    {k \in Keys(d) : k \in Range(SpecOf(d, n).dims)}

\* In the calls cs, every creation of b comes after a creation of a.
C16_Before(cs, a, b) ==
    \A j \in DOMAIN cs :
        cs[j] = <<"create_dataset", b>> =>
            \E i \in 1 .. (j - 1) : cs[i] = <<"create_dataset", a>>

\* C16: for every dataspec, a key that another dataset names in its dims
\* is a coordinate and is created before every dataset that names it; a
\* label that is no key is never a coordinate.
C16_CoordinatesFirst ==
    [][\A pathOk \in BOOLEAN, d \in Dataspecs \ {<<>>} :
          \A order \in Orders(Keys(d)) :
              (__init__(pathOk, d, order) /\ ~FindRaises(d)) =>
                  /\ \A n \in Keys(d) :
                         C16_Users(d, n) # {} => n \in _find_coordinates(d)
                  /\ _find_coordinates(d) \subseteq Keys(d)
                  /\ \A n \in Keys(d) : \A m \in C16_Users(d, n) :
                         C16_Before(calls', n, m)]_vars

\* C16 as amended: ... and is created before every dataset that names it
\* and is not a coordinate itself (every coordinate comes before every
\* other dataset); such a dataset, once constructed, has the coordinate as
\* the scale of the axis it names it on, and no scale on an axis whose
\* label is no key.
C16_CoordinatesBeforeOthers ==
    [][\A pathOk \in BOOLEAN, d \in Dataspecs \ {<<>>} :
          \A order \in Orders(Keys(d)) :
              (__init__(pathOk, d, order) /\ ~FindRaises(d)) =>
                  /\ \A n \in Keys(d) :
                         C16_Users(d, n) # {} => n \in _find_coordinates(d)
                  /\ _find_coordinates(d) \subseteq Keys(d)
                  /\ \A n \in _find_coordinates(d) :
                         \A m \in Keys(d) \ _find_coordinates(d) :
                             C16_Before(calls', n, m)
                  /\ ret' = "ok" =>
                         \A i \in DOMAIN disk'.sets :
                             LET made == disk'.sets[i]
                                 dims == SpecOf(d, made.name).dims
                             IN  IF made.name \in _find_coordinates(d)
                                 THEN \A a \in DOMAIN made.scales :
                                          made.scales[a] = ""
                                 ELSE \A a \in DOMAIN dims :
                                          made.scales[a] =
                                              IF dims[a] \in C16_Keyed(d, made.name)
                                              THEN dims[a] ELSE ""]_vars

\* A manager constructed from a dataspec in which the coordinate "x" names
\* another coordinate: "z" is bound to "x" on axis 1 and to nothing on the
\* axis labelled "n".
C16_Witness ==
    /\ op.kind = "__init__"
    /\ ret = "ok"
    /\ Len(disk.sets) = 3
    /\ disk.sets[3].name = "z"
    /\ disk.sets[3].labels = <<"n", "x">>
    /\ disk.sets[3].scales = <<"", "x">>
\* A dataspec every value of which is a mapping with a shape, no unknown
\* key, and as many dims as axes when it has dims.
C17_WellFormed(d) ==
    \A i \in DOMAIN d :
        LET spec == d[i][2] IN
        /\ spec.mapping /\ spec.hasShape /\ ~spec.extra
        /\ spec.hasDims => Len(spec.dims) = Len(spec.shape)

\* maxshape=None: the dataset cannot be resized.
C17_NoMaxShape == <<>>

\* C17: a dataset declared with fixed chunking (chunks=False) is created,
\* and created with no maximum shape.
C17_FixedNotResizable ==
    [][\A d \in Dataspecs \ {<<>>} : \A order \in Orders(Keys(d)) :
          (__init__(TRUE, d, order) /\ ~disk.exists /\ C17_WellFormed(d)) =>
              \A n \in Keys(d) :
                  SpecOf(d, n).chunks = "False" =>
                      \E i \in DOMAIN disk'.sets :
                          /\ disk'.sets[i].name = n
                          /\ disk'.sets[i].maxshape = C17_NoMaxShape]_vars
\* C18: constructing a DataSaver from a dataspec in which some dataset has
\* fewer or more dims than its shape has axes fails with DataSavingError,
\* so no such manager is ever constructed.
C18_Mismatch(d) ==
    \E i \in DOMAIN d :
        /\ d[i][2].hasDims /\ d[i][2].hasShape
        /\ Len(d[i][2].dims) # Len(d[i][2].shape)

C18_DimsMatchShape ==
    [][\A d \in Dataspecs \ {<<>>} : \A order \in Orders(Keys(d)) :
          (__init__(TRUE, d, order) /\ ~disk.exists /\ C18_Mismatch(d)) =>
              ret' = "DataSavingError"]_vars

\* The coercion of a list, tuple or set as C19 states it.  exact: elements
\* are of one type when their types are equal; otherwise, when each is an
\* instance of the type of the first.
C19_Numeric(value) == value.t \in {"num", "bool"}

C19_OneType(value, exact) ==
    IF exact
    THEN \A i, j \in DOMAIN value.items : value.items[i].t = value.items[j].t
    ELSE \A i \in 2 .. Len(value.items) :
             \/ value.items[i].t = value.items[1].t
             \/ <<value.items[i].t, value.items[1].t>>
                    \in {<<"bool", "num">>, <<"npstr", "str">>}

C19_Coerced(value, exact) ==
    IF Len(value.items) = 0 THEN value
    ELSE IF Len(value.items) = 1 THEN value.items[1]
    ELSE IF \/ \A i \in DOMAIN value.items : C19_Numeric(value.items[i])
            \/ C19_OneType(value, exact)
    THEN value
    ELSE Dict([i \in DOMAIN value.items |->
                  <<ToString(i - 1), value.items[i]>>])

\* What writing value under key in the group at path must leave in the
\* file: a leaf attribute, or a child group written by the same rules.
RECURSIVE C19_Stored(_, _, _, _)
C19_Stored(path, key, value, exact) ==
    LET c == IF value.t = "list" THEN C19_Coerced(value, exact)
             ELSE IF value.t = "none" THEN Empty
             ELSE value
        sub == [i \in DOMAIN c.pairs |->
                   C19_Stored(Append(path, key), c.pairs[i][1], c.pairs[i][2],
                              exact)]
    IN  IF c.t = "dict"
        THEN [groups |-> {Append(path, key)}
                            \cup UNION {sub[i].groups : i \in DOMAIN sub},
              attrs |-> UNION {sub[i].attrs : i \in DOMAIN sub}]
        ELSE [groups |-> {}, attrs |-> {<<path, key, c>>}]

C19_AsStated(exact) ==
    \A name \in MetaNames, tree \in MetaTrees :
        (save_metadata(name, tree) /\ ret' = "ok") =>
            \A i \in DOMAIN tree.pairs :
                tree.pairs[i][2].t = "list" =>
                    LET e == C19_Stored(IF name = "" THEN <<>> ELSE <<name>>,
                                        tree.pairs[i][1], tree.pairs[i][2],
                                        exact)
                    IN  /\ e.attrs \subseteq attrs'
                        /\ e.groups \subseteq groups'

C20_Leaf(value) == value.t \in {"num", "str", "npstr", "bool", "arr"}

\* A tree of leaves, None values and nested mappings only.
RECURSIVE C20_Simple(_)
C20_Simple(tree) ==
    \A i \in DOMAIN tree.pairs :
        LET value == tree.pairs[i][2]
        IN  \/ C20_Leaf(value)
            \/ value.t = "none"
            \/ value.t = "dict" /\ C20_Simple(value)

\* Every leaf of pairs is an attribute of the group at path with its value
\* unchanged, every None is the empty marker under its key, and every
\* mapping is a child group written the same way, its key not having
\* become an attribute.
RECURSIVE C20_Written(_, _, _, _)
C20_Written(path, pairs, before, after) ==
    \A i \in DOMAIN pairs :
        LET key == pairs[i][1]
            value == pairs[i][2]
        IN  IF C20_Leaf(value) THEN <<path, key, value>> \in after
            ELSE IF value.t = "none" THEN <<path, key, Empty>> \in after
            ELSE IF value.t = "dict"
            THEN /\ Append(path, key) \in groups'
                 /\ {a \in after : a[1] = path /\ a[2] = key}
                        = {a \in before : a[1] = path /\ a[2] = key}
                 /\ C20_Written(Append(path, key), value.pairs, before, after)
            ELSE TRUE

\* The names the call is to create are free in the file.
C20_Free(name, tree) ==
    IF name = ""
    THEN \A i \in DOMAIN tree.pairs :
             tree.pairs[i][2].t = "dict" => tree.pairs[i][1] \notin inFile
    ELSE name \notin inFile

C21_Untouched(path, key) ==
    /\ {a \in attrs' : a[1] = path /\ a[2] = key}
           = {a \in attrs : a[1] = path /\ a[2] = key}
    /\ Append(path, key) \in groups' <=> Append(path, key) \in groups

\* The writing of pairs into the group at path stopped at one key: the
\* keys before it are written in full, the keys after it not at all, and
\* the key itself is either the one the error names, with no attribute set
\* for it, or a mapping whose group exists and in which the writing stopped
\* in the same way.
RECURSIVE C21_Aborted(_, _)
C21_Aborted(path, pairs) ==
    \E j \in DOMAIN pairs :
        LET key == pairs[j][1]
            value == IF pairs[j][2].t = "list"
                     THEN C19_Coerced(pairs[j][2], FALSE) ELSE pairs[j][2]
        IN  /\ \A i \in 1 .. (j - 1) :
                   LET e == C19_Stored(path, pairs[i][1], pairs[i][2], FALSE)
                   IN  e.attrs \subseteq attrs' /\ e.groups \subseteq groups'
            /\ \A i \in (j + 1) .. Len(pairs) : C21_Untouched(path, pairs[i][1])
            /\ \/ /\ message' = key
                  /\ calls'[Len(calls')][2] = key
                  /\ C21_Untouched(path, key)
               \/ /\ value.t = "dict"
                  /\ Append(path, key) \in groups'
                  /\ C21_Aborted(Append(path, key), value.pairs)

\* C21: when the writing of one metadata key fails, save_metadata raises
\* DataSavingError with a message that names that key; what the call wrote
\* before that key is in the store, nothing that was in the store is lost,
\* and no key after it is written, in its subtree or above it.
C21_FailureIsLocal ==
    [][\A name \in MetaNames, tree \in MetaTrees :
          (save_metadata(name, tree) /\ ret' \notin {"ok", "ValueError"}) =>
              /\ ret' = "DataSavingError"
              /\ groups \subseteq groups'
              /\ C21_Aborted(IF name = "" THEN <<>> ELSE <<name>>,
                             tree.pairs)]_vars

\* The writing stopped at f inside the nested mapping k: a and k's c are
\* written, k's d and the top-level e are not.
C21_Witness ==
    /\ op.kind = "save_metadata"
    /\ ret = "DataSavingError"
    /\ message = "f"
    /\ <<<<GroupName>>, "a", Num(1)>> \in attrs
    /\ <<<<GroupName, "k">>, "c", Num(2)>> \in attrs
    /\ \A a \in attrs : a[2] \notin {"f", "d", "e"}

\* C22: trimming never discards written data: after the session has
\* closed, every dataset a save_data call that returned has written
\* positions of is in the file with a shape that contains them all (a
\* write at position k leaves at least k + 1 on that axis; a dataset
\* written at position 0 only is not deleted).
C22_WrittenDataKept ==
    (op.kind = "__exit__" /\ ret = "ok") =>
        \A n \in Names :
            ~AllZero(covered[n]) =>
                /\ n \in inFile
                /\ \A i \in DOMAIN covered[n] : dshape[n][i] >= covered[n][i]

\* The update rule of C23 for one axis and for a whole index.
C23_Axis(prev, item, declared) ==
    IF item.k = "slice" /\ item.open THEN declared
    ELSE IF prev >= item.v THEN prev ELSE item.v

C23_Rule(prev, index, declared) ==
    IF index.k = "ellipsis" THEN declared
    ELSE [i \in DOMAIN declared |->
             C23_Axis(prev[i], index.items[i], declared[i])]

\* C23: after each save_data call that returned, the size of the dataset
\* written is the update rule applied to its previous size: the declared
\* shape for index = ...; otherwise, per axis, the declared length for an
\* open slice, max(previous, stop) for a bounded slice and
\* max(previous, position) for an integer; no other size changes.
C23_UpdateRule ==
    [][(op'.kind = "save_data" /\ ret' = "ok") =>
          \A n \in Names :
              \A index \in RankTuples(n) \cup OddTuples(n) \cup CommonIndices :
                  save_data(n, "ndarray", index) =>
                      /\ size'[n] = C23_Rule(size[n], index, shape(n))
                      /\ \A m \in Names \ {n} : size'[m] = size[m]]_vars

\* Writes into "z" through a bounded slice and an integer position have
\* left a size below the declared shape on both axes.
C23_Witness ==
    /\ op.kind = "save_data"
    /\ ret = "ok"
    /\ hist["z"] = "mixed"
    /\ size["z"] = <<1, 1>>

\* The names the dims of the datasets other than name hold.
C24_NamedByOthers(dataspec, name) ==
    \E i \in DOMAIN dataspec :
        /\ dataspec[i][1] # name
        /\ name \in Range(dataspec[i][2].dims)

\* C24: a dataset is a coordinate, and loses its dims, only when another
\* dataset of the dataspec names it in its dims; a dataset named in its
\* own dims only is created with its axes labelled by them.
C24_OwnDimsMakeNoCoordinate ==
    [][\A pathOk \in BOOLEAN, dataspec \in Dataspecs :
          \A order \in Orders(Keys(dataspec)) :
              (__init__(pathOk, dataspec, order) /\ ret' = "ok") =>
                  \A i \in DOMAIN dataspec :
                      (/\ dataspec[i][2].hasDims
                       /\ ~C24_NamedByOthers(dataspec, dataspec[i][1])) =>
                          LET made == disk'.sets[PlaceOf(disk'.sets,
                                                         dataspec[i][1])]
                          IN  \A a \in DOMAIN made.labels
                                        \cap DOMAIN dataspec[i][2].dims :
                                  made.labels[a] = dataspec[i][2].dims[a]]_vars

\* C25: after the session has closed, every axis of a dataset still in
\* the file that construction bound to a coordinate is bound to a dataset
\* that is still in the file: __exit__ deletes no coordinate a surviving
\* dataset is bound to.
C25_NoDanglingScale ==
    (op.kind = "__exit__" /\ ret = "ok") =>
        \A i \in DOMAIN disk.sets :
            disk.sets[i].name \in inFile =>
                \A a \in DOMAIN disk.sets[i].scales :
                    disk.sets[i].scales[a] # "" =>
                        disk.sets[i].scales[a] \in inFile

\* C26: for every tuple index of the dataset's rank, whatever its entries
\* are, a save_data call whose store write succeeded (the flush follows it)
\* goes on to update the size and returns.
C26_WriteThenTrack ==
    [][(op'.kind = "save_data" /\ <<"flush", "">> \in Range(calls')) =>
          \A n \in Names :
              \A index \in RankTuples(n) \cup OddTuples(n) :
                  save_data(n, "ndarray", index) =>
                      /\ ret' = "ok"
                      /\ size'[n] = C23_Rule(size[n], index, shape(n))]_vars

\* C27: in a session the size of every dataset is, on every axis, between
\* 0 and the declared shape, so __exit__ never asks the store for a resize
\* past the declared shape.
C27_SizeWithinShape ==
    \A n \in Names :
        \A i \in DOMAIN size[n] : 0 <= size[n][i] /\ size[n][i] <= shape(n)[i]

\* The coordinates of dataspec d as construction classifies them: the keys
\* that the dims of a dataset of d hold.
C28_Coordinates(d) ==
    {n \in Keys(d) : \E m \in Keys(d) : n \in Range(SpecOf(d, m).dims)}

\* C28: after construction every dataset of the dataspec is in the file; a
\* dataset that is no coordinate has axis i labelled dims[i] and bound to
\* the coordinate of that name when dims[i] is a coordinate, to nothing
\* otherwise, and no label or binding where it declares none; a
\* coordinate has no label and no binding.
C28_LabelsAndScales ==
    [][\A pathOk \in BOOLEAN, d \in Dataspecs :
          \A order \in Orders(Keys(d)) :
              (__init__(pathOk, d, order) /\ ret' = "ok") =>
                  /\ {disk'.sets[i].name : i \in DOMAIN disk'.sets} = Keys(d)
                  /\ \A i \in DOMAIN disk'.sets :
                         LET made == disk'.sets[i]
                             dims == IF made.name \in C28_Coordinates(d)
                                     THEN <<>> ELSE SpecOf(d, made.name).dims
                         IN  \A a \in DOMAIN made.labels :
                                 IF a \in DOMAIN dims
                                 THEN /\ made.labels[a] = dims[a]
                                      /\ made.scales[a] =
                                             IF dims[a] \in C28_Coordinates(d)
                                             THEN dims[a] ELSE ""
                                 ELSE /\ made.labels[a] = ""
                                      /\ made.scales[a] = ""]_vars

\* The manager built from the dataspec of two datasets: the coordinate "x"
\* has no label, "z" is labelled ("n", "x") and bound to "x" on axis 1 only.
C28_Witness ==
    /\ op.kind = "__init__"
    /\ ret = "ok"
    /\ Len(disk.sets) = 2
    /\ disk.sets[1].name = "x"
    /\ disk.sets[1].labels = <<"">>
    /\ disk.sets[1].scales = <<"">>
    /\ disk.sets[2].labels = <<"n", "x">>
    /\ disk.sets[2].scales = <<"", "x">>

\* C29: once a DataSaver has been constructed from the caller's dataspec
\* and a session has been completed, the caller's specifications are as
\* they were given: none has lost its dims and none has gained a size.
C29_DataspecUnchanged ==
    (op.kind = "__exit__" /\ ret = "ok") =>
        /\ _dataspec = Schema
        /\ \A n \in Names : size[n] = <<>>

\* The values the loop of _save_metadata hands to group.attrs[key] = value
\* for the pairs of a tree: what _parse_attribute returns, mappings being
\* descended into.
RECURSIVE C30_Handed(_)
C30_Handed(pairs) ==
    UNION {LET value == _parse_attribute(pairs[i][2])
           IN  IF value.t = "dict" THEN C30_Handed(value.pairs) ELSE {value}
           : i \in DOMAIN pairs}

\* A sequence of several elements that are neither all numbers nor all of
\* one type.
C30_Mixed(value) ==
    /\ value.t = "list"
    /\ Len(value.items) > 1
    /\ ~ \A i \in DOMAIN value.items : C19_Numeric(value.items[i])
    /\ ~C19_OneType(value, FALSE)

\* C30: whatever the metadata tree, no value set as a leaf attribute is a
\* raw None, a mapping, or a sequence of several elements of mixed
\* non-numeric types, the element of a one-element sequence included.
C30_CoercionTotal ==
    [][\A name \in MetaNames, tree \in MetaTrees :
          save_metadata(name, tree) =>
              \A value \in C30_Handed(tree.pairs) :
                  /\ value.t \notin {"none", "dict"}
                  /\ ~C30_Mixed(value)]_vars

\* C31: a save_data call that returns has made its checks, then written
\* to the store at the index, then flushed, then updated the size: its
\* store calls are the write and the flush in that order; a write the
\* store took is followed by the flush even when the call raises later;
\* a size changes only in a call that has written and flushed, and only
\* that of the dataset written; a call refused by a check issues no store
\* call and changes no size.
C31_WriteFlushTrack ==
    [][op'.kind = "save_data" =>
          /\ ret' = "ok" =>
                \E n \in Names :
                    /\ calls' = << <<"write", n>>, <<"flush", "">> >>
                    /\ \A m \in Names \ {n} : size'[m] = size[m]
          /\ (calls' # <<>> /\ ret' # "StoreError") =>
                /\ Len(calls') = 2
                /\ calls'[1][1] = "write"
                /\ calls'[2] = <<"flush", "">>
          /\ size' # size => ret' = "ok"
          /\ ret' = "DataSavingError" => (calls' = <<>> /\ size' = size)]_vars

\* A second write into "z" has returned: written, flushed, size updated.
C31_Witness ==
    /\ op.kind = "save_data"
    /\ ret = "ok"
    /\ calls = << <<"write", "z">>, <<"flush", "">> >>
    /\ hist["z"] = "ranges"
    /\ size["z"] = <<1, 2>>
    /\ hist["x"] # "none"

\* C32: save_data on one dataset changes the contents and the size of
\* that dataset only: the sizes and written positions of the others, the
\* shapes and the objects of the file are as before; and what __exit__
\* does to a dataset follows from that dataset's own size alone: delete
\* when it is all zero, resize to it when it differs from the declared
\* shape, nothing otherwise.
C32_OnlyTheDatasetWritten ==
    [][/\ op'.kind = "save_data" =>
             /\ \A n \in Names :
                    (calls' # <<>> /\ calls'[1] = <<"write", n>>) =>
                        \A m \in Names \ {n} :
                            /\ size'[m] = size[m]
                            /\ covered'[m] = covered[m]
             /\ calls' = <<>> => (size' = size /\ covered' = covered)
             /\ dshape' = dshape
             /\ inFile' = inFile
       /\ op'.kind = "__exit__" =>
             \A n \in Names :
                 /\ <<"delete", n>> \in Range(calls') => AllZero(size[n])
                 /\ <<"resize", n>> \in Range(calls') =>
                        (~AllZero(size[n]) /\ size[n] # shape(n))
                 /\ ret' = "ok" =>
                        /\ AllZero(size[n]) =>
                               (n \in inFile => <<"delete", n>> \in Range(calls'))
                        /\ (~AllZero(size[n]) /\ size[n] # shape(n)) =>
                               /\ <<"resize", n>> \in Range(calls')
                               /\ dshape'[n] = size[n]
                        /\ size[n] = shape(n) =>
                               (n \in inFile' /\ dshape'[n] = dshape[n])]_vars

\* The session wrote "z" in part and "x" not at all and has closed: "x" is
\* deleted and "z" resized, each by its own size.
C32_Witness ==
    /\ op.kind = "__exit__"
    /\ ret = "ok"
    /\ AllZero(size["x"])
    /\ size["z"] = <<1, 2>>
    /\ calls = << <<"delete", "x">>, <<"resize", "z">>, <<"close", "">> >>
    /\ dshape["z"] = <<1, 2>>

\* C33: save_metadata, whether it returns or raises, changes no size, not
\* the lock and not the handle, no dataset of the file and no shape, and
\* so nothing of what __exit__ will delete or resize.
C33_MetadataApart ==
    [][op'.kind = "save_metadata" =>
          /\ UNCHANGED <<size, _lock, _file, dshape>>
          /\ inFile' \cap Names = inFile \cap Names
          /\ inFile \subseteq inFile'
          /\ \A ioFail \in 0 .. Len(Order) :
                 /\ Trim(ioFail)'.calls = Trim(ioFail).calls
                 /\ Trim(ioFail)'.err = Trim(ioFail).err
                 /\ Trim(ioFail)'.shapes = Trim(ioFail).shapes]_vars

\* Metadata has been written to the group in a session in which "z" is
\* written in part: the sizes are those of the writes.
C33_Witness ==
    /\ op.kind = "save_metadata"
    /\ ret = "ok"
    /\ GroupName \in inFile
    /\ size["z"] = <<1, 2>>
    /\ AllZero(size["x"])
    /\ ~_lock

C35_EmptyDataspecFirst ==
    [][(\E pathOk \in BOOLEAN : __init__(pathOk, <<>>, <<>>)) =>
          /\ ret' = "DataSavingError"
          /\ calls' = <<>>
          /\ UNCHANGED <<disk, inFile, _dataspec>>]_vars

\* A construction refused with nothing done, on a free path.
C35_Witness ==
    /\ op.kind = "__init__"
    /\ ret = "DataSavingError"
    /\ calls = <<>>
    /\ ~disk.exists
====
